---- MODULE Spec2Model ----
(***************************************************************************)
(* A model of sqlite-schemaless (src/schemaless.py): the versioned log of  *)
(* a KeySpace, the Row handles with their caches, the trigger-maintained   *)
(* Indexes and the event handlers, over the SQLite state they live in      *)
(* (tables and triggers, both found by name).                              *)
(*                                                                         *)
(* Every name of the program (keyspace, column, path) is a sequence of     *)
(* one-character strings, so that clean() and the path splitting are       *)
(* computed as the code computes them.                                     *)
(***************************************************************************)
EXTENDS Integers, Sequences, FiniteSets, TLC

\* ------------------------------------------------------------------ bounds
\* physical entries one keyspace table holds at most
MaxLog == 2
\* largest row key a write may allocate or address
MaxKey == 2
\* readings of time.time(): 0..MaxClock
MaxClock == 1
\* row creations (allocations of a row key) in one run
MaxCreate == 3
\* handler registrations (keyspace.handler calls) in one run
MaxBind == 3
\* columns one create_row / multi_set call writes at most
MaxCols == 2

\* ------------------------------------------------------------ characters
\* the characters \w matches, among those the model's names are made of
WordChars ==
  {"a", "b", "c", "d", "e", "f", "g", "h", "i", "j", "k", "l", "m", "n", "o",
   "p", "q", "r", "s", "t", "u", "v", "w", "x", "y", "z", "0", "1", "2", "3",
   "4", "5", "6", "7", "8", "9", "_"}

Digits == {"0", "1", "2", "3", "4", "5", "6", "7", "8", "9"}

DigitValue(c) ==
  CASE c = "0" -> 0 [] c = "1" -> 1 [] c = "2" -> 2 [] c = "3" -> 3
    [] c = "4" -> 4 [] c = "5" -> 5 [] c = "6" -> 6 [] c = "7" -> 7
    [] c = "8" -> 8 [] c = "9" -> 9

\* re.sub('[^\w]+', '', s)
clean(s) == SelectSeq(s, LAMBDA c : c \in WordChars)

\* ------------------------------------------------------------- documents
\* JSON documents, as json.loads returns them.  Python's None is JSON null.
\* The values the program writes are such documents (null, strings, objects
\* with string keys, arrays): the stored text of one, json.dumps(v), parses
\* back to it, so an entry's value is kept as the document itself.
None == [kind |-> "null"]
Str(s) == [kind |-> "string", s |-> s]
Obj(items) == [kind |-> "object", items |-> items]
Arr(elems) == [kind |-> "array", elems |-> elems]

\* ------------------------------------------------------- path extraction
\* str.lstrip(chars)
RECURSIVE lstrip(_, _)
lstrip(s, chars) ==
  IF s # <<>> /\ Head(s) \in chars THEN lstrip(Tail(s), chars) ELSE s

\* str.strip('[]')
RECURSIVE rstrip(_, _)
rstrip(s, chars) ==
  IF s # <<>> /\ s[Len(s)] \in chars
  THEN rstrip(SubSeq(s, 1, Len(s) - 1), chars) ELSE s

strip(s, chars) == rstrip(lstrip(s, chars), chars)

\* the number of digits s starts with
RECURSIVE DigitRun(_)
DigitRun(s) ==
  IF s # <<>> /\ Head(s) \in Digits THEN 1 + DigitRun(Tail(s)) ELSE 0

\* the length of the match of \[\d+\] at the start of s, 0 when there is none
BracketLen(s) ==
  IF s # <<>> /\ Head(s) = "["
  THEN LET n == DigitRun(Tail(s))
       IN  IF n > 0 /\ Len(s) >= n + 2 /\ s[n + 2] = "]" THEN n + 2 ELSE 0
  ELSE 0

\* split_re.split(path) followed by filter(None, parts): the text between the
\* separators, and the [n] separators themselves (the capturing group)
RECURSIVE split_parts(_, _)
split_parts(s, cur) ==
  LET flush == IF cur = <<>> THEN <<>> ELSE <<cur>>
      split(n) ==
        IF n > 0
        THEN flush \o <<SubSeq(s, 1, n)>>
               \o split_parts(SubSeq(s, n + 1, Len(s)), <<>>)
        ELSE IF Head(s) = "." THEN flush \o split_parts(Tail(s), <<>>)
        ELSE split_parts(Tail(s), Append(cur, Head(s)))
  IN  IF s = <<>> THEN flush ELSE split(BracketLen(s))

path_parts(path) == split_parts(lstrip(path, {"$", "."}), <<>>)

\* int(s) of a digit string
RECURSIVE int(_)
int(s) ==
  IF s = <<>> THEN 0 ELSE 10 * int(SubSeq(s, 1, Len(s) - 1)) + DigitValue(s[Len(s)])

\* What a call returns: a value, or an exception that leaves it.
Return(v) == [raised |-> FALSE, v |-> v]
Raise == [raised |-> TRUE, v |-> None]

\* one step of the loop of _json_extract_fallback, json_data[...] for one part:
\* the value found, "missing" for a KeyError or IndexError, "error" for any
\* other exception (TypeError, ValueError), which the loop does not catch
Found(v) == [st |-> "found", v |-> v]
Missing == [st |-> "missing", v |-> None]
Error == [st |-> "error", v |-> None]

subscript(json_data, part) ==
  IF Head(part) = "["
  THEN LET digits == strip(part, {"[", "]"})
       IN  IF digits = <<>> \/ \E i \in 1..Len(digits) : digits[i] \notin Digits
           THEN Error
           ELSE LET i == int(digits)
                IN  CASE json_data.kind = "array" ->
                           IF i < Len(json_data.elems)
                           THEN Found(json_data.elems[i + 1]) ELSE Missing
                      [] json_data.kind = "string" ->
                           IF i < Len(json_data.s)
                           THEN Found(Str(<<json_data.s[i + 1]>>)) ELSE Missing
                      [] json_data.kind = "object" -> Missing
                      [] OTHER -> Error
  ELSE CASE json_data.kind = "object" ->
              IF part \in DOMAIN json_data.items
              THEN Found(json_data.items[part]) ELSE Missing
         [] OTHER -> Error

RECURSIVE extract_loop(_, _)
extract_loop(json_data, parts) ==
  LET step(r) == CASE r.st = "error" -> Raise
                   [] r.st = "missing" -> Return(None)
                   [] OTHER -> extract_loop(r.v, Tail(parts))
  IN  IF parts = <<>> THEN Return(json_data)
      ELSE step(subscript(json_data, Head(parts)))

\* _json_extract_fallback(json_text, path), json_text the stored text of doc
json_extract_fallback(doc, path) == extract_loop(doc, path_parts(path))

\* json_extract of the engine (SQLite's JSON1), used when USE_JSON_FALLBACK is
\* false: a step that does not resolve gives NULL, never an error
RECURSIVE native_loop(_, _)
native_loop(json_data, parts) ==
  LET step(r) == IF r.st = "found" /\ json_data.kind \in {"object", "array"}
                 THEN native_loop(r.v, Tail(parts))
                 ELSE None
  IN  IF parts = <<>> THEN json_data
      ELSE step(subscript(json_data, Head(parts)))

json_extract_native(doc, path) == Return(native_loop(doc, path_parts(path)))

\* ---------------------------------------------------------- declarations
\* the keyspaces the program declares: db.keyspace(name, *indexes)
KsA == <<"k", "-", "a">>
KsB == <<"k", "b">>
KeySpaces == {KsA, KsB}
\* a KeySpace declared with another name, which clean() maps to KsA's table
KsKa == <<"k", "a">>

ColData == <<"d", "a", "t", "a">>
ColMisc == <<"m", "i", "s", "c">>
Columns == {ColData, ColMisc}

PathK1 == <<"$", ".", "k", "1">>
PathK2 == <<"$", ".", "k", "2">>

K1 == <<"k", "1">>
K2 == <<"k", "2">>
X == Str(<<"x">>)
Y == Str(<<"y">>)
\* {"k1": "x"}, {"k1": "y"}, {"k2": "x"} and the bare string "x"
DocK1X == Obj(K1 :> X)
DocK1Y == Obj(K1 :> Y)
DocK2X == Obj(K2 :> X)
\* the values the program writes
Values == {DocK1X, DocK1Y, DocK2X, X}

\* Index(column, path)
Index(column, path) == [column |-> column, path |-> path]

\* KeySpace.indexes, in the order given to db.keyspace(); the second Index of
\* KsA has the path of the first and another column
indexes(ks) ==
  IF ks = KsA THEN <<Index(ColData, PathK1), Index(ColMisc, PathK1)>>
  ELSE <<>>

\* KeySpace.db_table
db_table(ks) == clean(ks)

\* Index.name
index_name(ix) == clean(ix.path)

\* Index.db_table, set by Index.bind
index_db_table(ks, ix) ==
  db_table(ks) \o <<"_">> \o clean(ix.column) \o <<"_">> \o index_name(ix)

\* '%s_populate' % name, '%s_delete' % name, '%s_signal' % db_table: the
\* formatted name, kept as the pair of its two parts (no two of the suffixes
\* end alike, so two names are equal exactly when both parts are)
trigger_name(prefix, suffix) == <<prefix, suffix>>

Range(f) == {f[i] : i \in DOMAIN f}

\* the handler functions the program registers and what each returns when
\* called with a signal of the column: None, the stop sentinel False, or an
\* exception.  "stop_data" returns False for the signals of ColData only;
\* "once" calls once.unbind() and returns None.
Fns == {"rec", "stop", "boom", "stop_data", "once"}
\* the handler functions that call their own unbind() when they are called
Unbinds == {"once"}
handler_result(fn, column) ==
  CASE fn = "rec" -> "none"
    [] fn = "once" -> "none"
    [] fn = "stop" -> "false"
    [] fn = "boom" -> "raise"
    [] fn = "stop_data" -> IF column = ColData THEN "false" ELSE "none"

\* the Row objects the program holds
Handles == {1, 2}

\* ------------------------------------------------------------------ state
VARIABLES
  tables,            \* SQLite: table name -> its rows, in the order of their
                     \* primary keys (id), which is the order of insertion
  triggers,          \* SQLite: trigger name -> its definition
  use_json_fallback, \* Schemaless._json_fallback
  generator,         \* the generator the latest call of Index.query returned
  txn,               \* caller -> the atomic() block of multi_set it is in
  handlers,          \* Schemaless._handlers: db_table -> list of wrappers
  wrapper_fn,        \* the fn each wrapper of KeySpace.handler closes over
  fn_unbind,         \* fn.unbind: the wrapper the attribute's closure removes
  rows,              \* the Row objects: keyspace, identifier, _data
  clock,             \* the value time.time() returns now
  allocated,         \* history: the row keys given to new rows, per table
  last               \* history: the last call, what it returned and signalled

vars ==
  <<tables, triggers, use_json_fallback, generator, txn, handlers,
    wrapper_fn, fn_unbind, rows, clock, allocated, last>>

\* ------------------------------------------------------------ the engine
Max(S) == CHOOSE m \in S : \A n \in S : n <= m

\* COALESCE(MAX(row_key) + 1, 1)
next_row_key(rws) ==
  IF rws = <<>> THEN 1 ELSE Max({rws[i].row_key : i \in DOMAIN rws}) + 1

\* what a statement that fires triggers leaves: whether it failed, the tables,
\* and the calls of handlers it made (signals), in order
Outcome(raised, tbls, signals) ==
  [raised |-> raised, tables |-> tbls, signals |-> signals]

\* the SQL function json_extract: the fallback registered by Schemaless.__init__
\* (whose result sqlite3 must be able to bind: a dict or a list is an error),
\* else the engine's own
sql_json_extract(doc, path) ==
  LET bind(r) ==
        IF ~r.raised /\ r.v.kind \in {"object", "array"} THEN Raise ELSE r
  IN  IF use_json_fallback THEN bind(json_extract_fallback(doc, path))
      ELSE json_extract_native(doc, path)

\* a remove that takes nothing out of the list
list_keep(l, x) == l

\* a remove that takes the first item of the list out, whatever x is
list_remove_head(l, x) == Tail(l)

\* list.remove(x): the first item equal to x goes
list_remove(l, x) ==
  LET i == CHOOSE j \in DOMAIN l : l[j] = x /\ \A k \in 1..(j - 1) : l[k] # x
  IN  SubSeq(l, 1, i - 1) \o SubSeq(l, i + 1, Len(l))

\* fn.unbind() can remove its wrapper from the registry hnd (it raises a
\* ValueError otherwise)
can_unbind(hnd, fn) ==
  /\ fn_unbind[fn].wrapper # 0
  /\ fn_unbind[fn].wrapper \in Range(hnd[fn_unbind[fn].table])

\* the registry hnd after fn.unbind():
\* self.database._handlers[self.db_table].remove(wrapper)
unbind_in(hnd, fn) ==
  [hnd EXCEPT ![fn_unbind[fn].table] = list_remove(@, fn_unbind[fn].wrapper)]

\* the registry hnd after the calls signals: the handlers that unbind
\* themselves when called have done so (whether or not the write succeeds)
RECURSIVE unbound(_, _)
unbound(hnd, signals) ==
  LET fn == Head(signals).fn
  IN  IF signals = <<>> THEN hnd
      ELSE unbound(IF fn \in Unbinds /\ can_unbind(hnd, fn)
                   THEN unbind_in(hnd, fn) ELSE hnd,
                   Tail(signals))

\* Schemaless.event_handler from the i-th wrapper of the table's list on, the
\* registry being hnd: `for handler in self._handlers[table]` reads the list
\* by position, so the next wrapper called is the one at position i + 1 of the
\* list as the call left it.  Each call is
\* wrapper(table, row_key, column, value) = fn(row_key, column, value).
RECURSIVE dispatch(_, _, _, _, _, _)
dispatch(hnd, table, i, row_key, column, value) ==
  LET fn == wrapper_fn[hnd[table][i]]
      call == [wrapper |-> hnd[table][i], fn |-> fn,
               row_key |-> row_key, column |-> column, value |-> value]
      res == IF fn \in Unbinds /\ ~can_unbind(hnd, fn) THEN "raise"
             ELSE handler_result(fn, column)
      left == IF fn \in Unbinds THEN unbind_in(hnd, fn) ELSE hnd
      then(rest) ==
        [raised |-> rest.raised, signals |-> <<call>> \o rest.signals]
  IN  IF i > Len(hnd[table]) THEN [raised |-> FALSE, signals |-> <<>>]
      ELSE CASE res = "raise" -> [raised |-> TRUE, signals |-> <<call>>]
             [] res = "false" -> [raised |-> FALSE, signals |-> <<call>>]
             [] OTHER -> then(dispatch(left, table, i + 1, row_key, column,
                                       value))

\* a dispatch that calls the first handler of the list only
event_handler_first(hnd, table, row_key, column, value) ==
  dispatch([hnd EXCEPT ![table] = IF @ = <<>> THEN <<>> ELSE <<Head(@)>>],
           table, 1, row_key, column, value)

\* the list hs, last element first
RECURSIVE Reverse(_)
Reverse(hs) ==
  IF hs = <<>> THEN <<>> ELSE Append(Reverse(Tail(hs)), Head(hs))

\* a dispatch that calls the handlers latest registration first
event_handler_reversed(hnd, table, row_key, column, value) ==
  dispatch([hnd EXCEPT ![table] = Reverse(@)], table, 1, row_key, column,
           value)

\* Schemaless.event_handler(table, row_key, column, value), the registry
\* (self._handlers) being hnd
event_handler(hnd, table, row_key, column, value) ==
  dispatch(hnd, table, 1, row_key, column, value)

\* a populate trigger whose DELETE has no WHERE clause: the Index is emptied
\* before the entry of the inserted row is added
populate_whole_index(tbls, trg, new) ==
  LET body(x) ==
        IF x.raised THEN Outcome(TRUE, tbls, <<>>)
        ELSE IF x.v = None THEN Outcome(FALSE, tbls, <<>>)
        ELSE IF trg.target \notin DOMAIN tbls THEN Outcome(TRUE, tbls, <<>>)
        ELSE Outcome(FALSE,
               [tbls EXCEPT ![trg.target] =
                  <<[row_key |-> new.row_key, value |-> x.v]>>],
               <<>>)
  IN  IF new.column # trg.column THEN Outcome(FALSE, tbls, <<>>)
      ELSE body(sql_json_extract(new.value, trg.path))

\* the body of an Index's populate trigger, for the inserted row new
populate(tbls, trg, new) ==
  LET body(x) ==
        IF x.raised THEN Outcome(TRUE, tbls, <<>>)
        ELSE IF x.v = None THEN Outcome(FALSE, tbls, <<>>)
        ELSE IF trg.target \notin DOMAIN tbls THEN Outcome(TRUE, tbls, <<>>)
        ELSE Outcome(FALSE,
               [tbls EXCEPT ![trg.target] =
                  Append(SelectSeq(@, LAMBDA r : r.row_key # new.row_key),
                         [row_key |-> new.row_key, value |-> x.v])],
               <<>>)
  IN  IF new.column # trg.column THEN Outcome(FALSE, tbls, <<>>)
      ELSE body(sql_json_extract(new.value, trg.path))

\* every populate trigger among names, one after the other
RECURSIVE populate_all(_, _, _)
populate_all(tbls, names, new) ==
  LET n == CHOOSE m \in names : TRUE
      then(r) == IF r.raised THEN r
                 ELSE populate_all(r.tables, names \ {n}, new)
  IN  IF names = {} THEN Outcome(FALSE, tbls, <<>>)
      ELSE then(populate(tbls, triggers[n], new))

\* the calls of the handlers, each with the tables as they are when the
\* handler runs (what it would read from the database)
seeing(signals, tbls) ==
  [n \in DOMAIN signals |-> [seen |-> tbls] @@ signals[n]]

\* the AFTER INSERT triggers of table t, for the inserted row new.  The engine
\* fixes no order among the triggers of one event: signal_first is the choice.
after_insert(tbls, t, new, signal_first, hnd) ==
  LET pops == {n \in DOMAIN triggers :
                 triggers[n].kind = "populate" /\ triggers[n].on = t}
      sigs == {n \in DOMAIN triggers :
                 triggers[n].kind = "signal" /\ triggers[n].on = t}
      fire(emit, pop) ==
        IF signal_first
        THEN IF emit.raised
             THEN Outcome(TRUE, tbls, seeing(emit.signals, tbls))
             ELSE Outcome(pop.raised, pop.tables, seeing(emit.signals, tbls))
        ELSE IF pop.raised THEN pop
             ELSE Outcome(emit.raised, pop.tables,
                          seeing(emit.signals, pop.tables))
  IN  fire(IF sigs = {} THEN [raised |-> FALSE, signals |-> <<>>]
           ELSE event_handler(hnd, triggers[CHOOSE n \in sigs : TRUE].target,
                              new.row_key, new.column, new.value),
           populate_all(tbls, pops, new))

\* INSERT OR REPLACE on (row_key, column): what the program would do if it
\* overwrote the entry of a (row_key, column) pair instead of appending
sql_upsert(tbls, t, row_key, column, value, signal_first, hnd) ==
  IF t \notin DOMAIN tbls THEN Outcome(TRUE, tbls, <<>>)
  ELSE Outcome(FALSE,
         [tbls EXCEPT ![t] =
            Append(SelectSeq(@, LAMBDA e : ~(e.row_key = row_key
                                              /\ e.column = column)),
                   [row_key |-> row_key, column |-> column, value |-> value,
                    timestamp |-> clock])],
         <<>>)

\* INSERT INTO t (row_key, column, value, timestamp), timestamp = time.time().
\* A statement that fails leaves the tables as they were.
sql_insert(tbls, t, row_key, column, value, signal_first, hnd) ==
  LET new == [row_key |-> row_key, column |-> column, value |-> value,
              timestamp |-> clock]
      statement(r) == IF r.raised THEN Outcome(TRUE, tbls, r.signals) ELSE r
  IN  IF t \notin DOMAIN tbls THEN Outcome(TRUE, tbls, <<>>)
      ELSE statement(after_insert([tbls EXCEPT ![t] = Append(@, new)], t, new,
                                  signal_first, hnd))

\* a DELETE that removes one of the rows gone only
sql_delete_one(tbls, t, gone) ==
  IF gone = {} THEN tbls
  ELSE [n \in DOMAIN tbls |->
          IF n = t
          THEN SelectSeq(tbls[t], LAMBDA r : r # CHOOSE g \in gone : TRUE)
          ELSE tbls[n]]

\* DELETE FROM t of the rows gone (those the WHERE clause selects), with the
\* BEFORE DELETE triggers of t
sql_delete(tbls, t, gone) ==
  LET dels == {triggers[n] : n \in {m \in DOMAIN triggers :
                 triggers[m].kind = "delete" /\ triggers[m].on = t}}
      hit(target) ==
        {r.row_key : r \in {g \in gone :
           \E trg \in dels : trg.target = target /\ trg.column = g.column}}
  IN  [n \in DOMAIN tbls |->
         IF n = t THEN SelectSeq(tbls[t], LAMBDA r : r \notin gone)
         ELSE SelectSeq(tbls[n], LAMBDA r : r.row_key \notin hit(n))]

\* --------------------------------------------------------------- the rows
\* a Python dict: a function whose domain is its keys
EmptyDict == <<>>
DictSet(d, key, value) == (key :> value) @@ d
DictDel(d, key) == [k \in (DOMAIN d) \ {key} |-> d[k]]

\* no generator was made yet
NoGenerator ==
  [keyspace |-> <<>>, index |-> 0, value |-> None, operation |-> "",
   state |-> "none"]

\* a caller that is in no atomic() block
NoTxn == [keyspace |-> <<>>, identifier |-> 0, data |-> <<>>, snapshot |-> <<>>]

\* a variable that holds no Row
NoRow == [keyspace |-> <<>>, identifier |-> 0, data |-> EmptyDict]
\* Row(keyspace, identifier, **data); identifier 0 stands for None (the code
\* tests "if not self.identifier", which takes the two alike)
Row(keyspace, identifier, data) ==
  [keyspace |-> keyspace, identifier |-> identifier, data |-> data]

\* a lookup that matches the column in the entries of every row
latest_versions_any_row(rws, row_key, column) ==
  LET es == {e \in Range(rws) : e.column = column}
  IN  {e \in es : \A o \in es : o.timestamp <= e.timestamp}

\* the versions of (row_key, column) a SELECT ... ORDER BY timestamp DESC
\* LIMIT 1 may return first: those with the greatest timestamp (among equal
\* timestamps the engine's order is not fixed)
latest_versions(rws, row_key, column) ==
  LET es == {e \in Range(rws) : e.row_key = row_key /\ e.column = column}
  IN  {e \in es : \A o \in es : o.timestamp <= e.timestamp}

\* the values Row.__getitem__ may load for a key that is not cached
select_value(rws, row_key, column) ==
  IF latest_versions(rws, row_key, column) = {} THEN {None}
  ELSE {e.value : e \in latest_versions(rws, row_key, column)}

\* the call the history variable last records
Call(op, h, table, row_key, data, value, raised, signals, out) ==
  [op |-> op, h |-> h, table |-> table, row_key |-> row_key, data |-> data,
   value |-> value, raised |-> raised, signals |-> signals, out |-> out]

\* ------------------------------------------------------------------- Init
Init ==
  /\ tables = <<>>
  /\ triggers = <<>>
  /\ use_json_fallback \in BOOLEAN
  /\ generator = NoGenerator
  /\ txn = [h \in Handles |-> NoTxn]
  /\ handlers = [t \in {db_table(ks) : ks \in KeySpaces} |-> <<>>]
  /\ wrapper_fn = <<>>
  /\ fn_unbind = [fn \in Fns |-> [table |-> <<>>, wrapper |-> 0]]
  /\ rows = [h \in Handles |-> NoRow]
  /\ clock = 0
  /\ allocated = <<>>
  /\ last = Call("init", 0, <<>>, 0, EmptyDict, None, FALSE, <<>>, <<>>)

\* -------------------------------------------------------------- lifecycle
Trigger(kind, on, column, path, target) ==
  [kind |-> kind, on |-> on, column |-> column, path |-> path,
   target |-> target]

\* CREATE TRIGGER IF NOT EXISTS name ...
create_trigger(trgs, name, def) ==
  IF name \in DOMAIN trgs THEN trgs ELSE (name :> def) @@ trgs

\* CREATE TABLE IF NOT EXISTS name
create_table_safe(tbls, name) ==
  IF name \in DOMAIN tbls THEN tbls ELSE (name :> <<>>) @@ tbls

\* KeySpace._create_trigger
\* (named ks_create_trigger: create_trigger is the SQL statement above)
ks_create_trigger(trgs, ks) ==
  create_trigger(trgs, trigger_name(db_table(ks), "signal"),
                 Trigger("signal", db_table(ks), <<>>, <<>>, db_table(ks)))

\* Index._create_triggers, the two triggers
index_create_triggers(trgs, ks, ix) ==
  create_trigger(
    create_trigger(trgs, trigger_name(index_name(ix), "populate"),
                   Trigger("populate", db_table(ks), ix.column, ix.path,
                           index_db_table(ks, ix))),
    trigger_name(index_name(ix), "delete"),
    Trigger("delete", db_table(ks), ix.column, <<>>, index_db_table(ks, ix)))

RECURSIVE create_indexes(_, _, _)
create_indexes(db, ks, ixs) ==
  IF ixs = <<>> THEN db
  ELSE create_indexes(
         [tables |-> create_table_safe(db.tables, index_db_table(ks, Head(ixs))),
          triggers |-> index_create_triggers(db.triggers, ks, Head(ixs))],
         ks, Tail(ixs))

\* KeySpace.create(): model.create_table() raises when the table exists
Create(ks) ==
  LET t == db_table(ks)
  IN  /\ IF t \in DOMAIN tables
         THEN /\ UNCHANGED <<tables, triggers>>
              /\ last' = Call("create", 0, t, 0, EmptyDict, None, TRUE, <<>>, <<>>)
         ELSE \E db \in {create_indexes(
                           [tables |-> (t :> <<>>) @@ tables,
                            triggers |-> ks_create_trigger(triggers, ks)],
                           ks, indexes(ks))} :
                /\ tables' = db.tables
                /\ triggers' = db.triggers
                /\ last' = Call("create", 0, t, 0, EmptyDict, None, FALSE,
                                <<>>, <<>>)
      /\ UNCHANGED <<use_json_fallback, txn, generator,
                     handlers, wrapper_fn, fn_unbind, rows,
                     clock, allocated>>

\* DROP TRIGGER IF EXISTS name
drop_trigger(trgs, name) == [n \in (DOMAIN trgs) \ {name} |-> trgs[n]]

\* Index._drop_triggers
index_drop_triggers(trgs, ix) ==
  drop_trigger(drop_trigger(trgs, trigger_name(index_name(ix), "populate")),
               trigger_name(index_name(ix), "delete"))

RECURSIVE drop_indexes(_, _)
drop_indexes(trgs, ixs) ==
  IF ixs = <<>> THEN trgs
  ELSE drop_indexes(index_drop_triggers(trgs, Head(ixs)), Tail(ixs))

\* KeySpace.drop(): the triggers go first, then model.drop_table(), which
\* raises when there is no table (the triggers stay dropped)
Drop(ks) ==
  LET t == db_table(ks)
  IN  /\ triggers' = drop_trigger(drop_indexes(triggers, indexes(ks)),
                                  trigger_name(t, "signal"))
      /\ IF t \in DOMAIN tables
         THEN /\ tables' = [n \in (DOMAIN tables) \ {t} |-> tables[n]]
              /\ last' = Call("drop", 0, t, 0, EmptyDict, None, FALSE, <<>>, <<>>)
         ELSE /\ UNCHANGED tables
              /\ last' = Call("drop", 0, t, 0, EmptyDict, None, TRUE, <<>>, <<>>)
      /\ allocated' = SelectSeq(allocated, LAMBDA a : a[1] # t)
      /\ UNCHANGED <<use_json_fallback, txn, generator,
                     handlers, wrapper_fn, fn_unbind, rows,
                     clock>>

\* ------------------------------------------------------------ Row handles
\* keyspace[identifier]: a new Row with nothing cached
GetRowHandle(h, ks, identifier) ==
  /\ rows' = [rows EXCEPT ![h] = Row(ks, identifier, EmptyDict)]
  /\ last' = Call("keyspace_getitem", h, db_table(ks), identifier, EmptyDict,
                  None, FALSE, <<>>, <<>>)
  /\ UNCHANGED <<tables, triggers, use_json_fallback, txn, generator,
                 handlers, wrapper_fn,
                 fn_unbind, clock, allocated>>

\* keyspace.create_row(): a Row pending creation
CreateRowPending(h, ks) ==
  /\ rows' = [rows EXCEPT ![h] = Row(ks, 0, EmptyDict)]
  /\ last' = Call("create_row", h, db_table(ks), 0, EmptyDict, None, FALSE,
                  <<>>, <<>>)
  /\ UNCHANGED <<tables, triggers, use_json_fallback, txn, generator,
                 handlers, wrapper_fn,
                 fn_unbind, clock, allocated>>

\* insert_many(rows=[...]).execute(): one row per item of data, in the order
\* cols (the iteration order of the dict), each firing the triggers; hnd is
\* the registry of the handlers when the statement starts
RECURSIVE insert_many(_, _, _, _, _, _, _)
insert_many(tbls, t, row_key, data, cols, signal_first, hnd) ==
  LET then(r) ==
        LET join(rest) ==
              Outcome(rest.raised, rest.tables, r.signals \o rest.signals)
        IN  IF r.raised THEN r
            ELSE join(insert_many(r.tables, t, row_key, data, Tail(cols),
                                  signal_first, unbound(hnd, r.signals)))
  IN  IF cols = <<>> THEN Outcome(FALSE, tbls, <<>>)
      ELSE then(sql_insert(tbls, t, row_key, Head(cols), data[Head(cols)],
                           signal_first, hnd))

\* Row.multi_set(data) of the Row row: the identifier the Row ends with and
\* the outcome of the atomic block (rolled back as a whole when it fails)
multi_set(row, data, cols, signal_first) ==
  LET t == db_table(row.keyspace)
      identifier == IF row.identifier = 0
                    THEN next_row_key(tables[t]) ELSE row.identifier
      atomic(r) ==
        [identifier |-> identifier,
         res |-> IF r.raised THEN Outcome(TRUE, tables, r.signals) ELSE r]
  IN  IF t \notin DOMAIN tables
      THEN [identifier |-> row.identifier, res |-> Outcome(TRUE, tables, <<>>)]
      ELSE atomic(insert_many(tables, t, identifier, data, cols, signal_first,
                              handlers))

\* the orders in which a dict with these keys may be iterated
Orders(keys) ==
  {o \in UNION {[1..n -> keys] : n \in {Cardinality(keys)}} :
     \A i, j \in DOMAIN o : i # j => o[i] # o[j]}

\* the dicts create_row(**data) is called with
Datas ==
  UNION {[cs -> Values] : cs \in {c \in SUBSET Columns :
                                    c # {} /\ Cardinality(c) <= MaxCols}}

\* keyspace.create_row(**data), data not empty: Row.__init__ calls multi_set;
\* when that raises, no Row is returned
CreateRow(h, ks, data) ==
  LET t == db_table(ks)
  IN  \E cols \in Orders(DOMAIN data), signal_first \in BOOLEAN :
        \E m \in {multi_set(Row(ks, 0, data), data, cols, signal_first)} :
          /\ t \in DOMAIN tables =>
               /\ Len(tables[t]) + Len(cols) <= MaxLog
               /\ m.identifier <= MaxKey
               /\ Len(allocated) < MaxCreate
          /\ tables' = m.res.tables
          /\ handlers' = unbound(handlers, m.res.signals)
          /\ IF m.res.raised
             THEN UNCHANGED <<rows, allocated>>
             ELSE /\ rows' = [rows EXCEPT ![h] = Row(ks, m.identifier, data)]
                  /\ allocated' = Append(allocated, <<t, m.identifier>>)
          /\ last' = Call("create_row", h, t,
                          IF m.res.raised THEN 0 ELSE m.identifier, data,
                          None, m.res.raised, m.res.signals, cols)
          /\ UNCHANGED <<triggers, use_json_fallback, txn, generator,
                         wrapper_fn, fn_unbind, clock>>

\* row.multi_set(data) on a Row the program holds: the identifier is assigned
\* before insert_many and stays when the atomic block fails; _data is not
\* touched
MultiSet(h, data) ==
  LET row == rows[h]
      t == db_table(row.keyspace)
  IN  /\ row # NoRow
      /\ \E cols \in Orders(DOMAIN data), signal_first \in BOOLEAN :
           \E m \in {multi_set(row, data, cols, signal_first)} :
             /\ t \in DOMAIN tables =>
                  /\ Len(tables[t]) + Len(cols) <= MaxLog
                  /\ m.identifier <= MaxKey
                  /\ row.identifier = 0 => Len(allocated) < MaxCreate
             /\ tables' = m.res.tables
             /\ handlers' = unbound(handlers, m.res.signals)
             /\ rows' = [rows EXCEPT ![h] =
                           Row(row.keyspace, m.identifier, row.data)]
             /\ allocated' = IF row.identifier = 0 /\ ~m.res.raised
                             THEN Append(allocated, <<t, m.identifier>>)
                             ELSE allocated
             /\ last' = Call("multi_set", h, t,
                             IF m.res.raised THEN 0 ELSE m.identifier, data,
                             None, m.res.raised, m.res.signals, cols)
      /\ UNCHANGED <<triggers, use_json_fallback, txn, generator,
                     wrapper_fn, fn_unbind, clock>>

\* Row.__setitem__: row[key] = value
SetItem(h, key, value) ==
  LET row == rows[h]
      t == db_table(row.keyspace)
      row_key == IF row.identifier # 0 THEN row.identifier
                 ELSE next_row_key(tables[t])
  IN  /\ row # NoRow
      /\ \E signal_first \in BOOLEAN :
           \E r \in {IF t \in DOMAIN tables
                     THEN sql_insert(tables, t, row_key, key, value,
                                     signal_first, handlers)
                     ELSE Outcome(TRUE, tables, <<>>)} :
             /\ t \in DOMAIN tables =>
                  /\ Len(tables[t]) < MaxLog
                  /\ row_key <= MaxKey
                  /\ row.identifier = 0 => Len(allocated) < MaxCreate
             /\ tables' = r.tables
             /\ handlers' = unbound(handlers, r.signals)
             /\ IF r.raised
                THEN UNCHANGED <<rows, allocated>>
                ELSE /\ rows' = [rows EXCEPT ![h] =
                                   Row(row.keyspace, row_key,
                                       DictSet(row.data, key, value))]
                     /\ allocated' = IF row.identifier = 0
                                     THEN Append(allocated, <<t, row_key>>)
                                     ELSE allocated
             /\ last' = Call("setitem", h, t, IF r.raised THEN 0 ELSE row_key,
                             key :> value, value, r.raised, r.signals, <<key>>)
      /\ UNCHANGED <<triggers, use_json_fallback, txn, generator,
                     wrapper_fn, fn_unbind, clock>>

\* a Row that never finds a key in its cache
never_in_data(data, key) == FALSE

\* "key in self._data"
in_data(data, key) == key \in DOMAIN data

\* a column name no row has
ColNone == <<"k", "x">>

\* the preload arguments of get_row: True, or a collection of column names
\* (the empty one is false like None)
Preloads ==
  {[all |-> TRUE, columns |-> {}]}
    \cup {[all |-> FALSE, columns |-> S] :
            S \in SUBSET {ColData, ColMisc, ColNone}}

\* the results of SELECT column, value ... GROUP BY column over the entries
\* es: one row per column, its value (a bare column of the aggregate query)
\* taken from the entry of the group that the engine picks
group_by_column(es) ==
  {reps \in SUBSET es :
     /\ \A e \in es : \E r \in reps : r.column = e.column
     /\ \A e1, e2 \in reps : e1.column = e2.column => e1 = e2}

\* Row.multi_get(columns) on the log rws: the dicts it may load
multi_get(rws, identifier, columns) ==
  LET es == {e \in Range(rws) :
               /\ e.row_key = identifier
               /\ columns.all \/ e.column \in columns.columns}
  IN  {[c \in {r.column : r \in reps} |->
          (CHOOSE r \in reps : r.column = c).value] :
         reps \in group_by_column(es)}

\* keyspace.get_row(identifier, preload) with an identifier: Row.__init__
\* runs multi_get when preload is true, and the Row has what it loaded cached
GetRow(h, ks, identifier, preload) ==
  LET t == db_table(ks)
  IN  /\ IF ~preload.all /\ preload.columns = {}
         THEN /\ rows' = [rows EXCEPT ![h] = Row(ks, identifier, EmptyDict)]
              /\ last' = Call("get_row", h, t, identifier, EmptyDict, None,
                              FALSE, <<>>, <<preload>>)
         ELSE IF t \notin DOMAIN tables
         THEN /\ UNCHANGED rows
              /\ last' = Call("get_row", h, t, identifier, EmptyDict, None,
                              TRUE, <<>>, <<preload>>)
         ELSE \E data \in multi_get(tables[t], identifier, preload) :
                /\ rows' = [rows EXCEPT ![h] = Row(ks, identifier, data)]
                /\ last' = Call("get_row", h, t, identifier, EmptyDict, None,
                                FALSE, <<>>, <<preload>>)
      /\ UNCHANGED <<tables, triggers, use_json_fallback, txn, generator,
                     handlers, wrapper_fn, fn_unbind, clock, allocated>>

\* Row.__getitem__: row[key]
GetItem(h, key) ==
  LET row == rows[h]
      t == db_table(row.keyspace)
  IN  /\ row # NoRow
      /\ IF in_data(row.data, key)
         THEN /\ UNCHANGED rows
              /\ last' = Call("getitem", h, t, row.identifier, EmptyDict,
                              row.data[key], FALSE, <<>>, <<"cached", key>>)
         ELSE IF t \notin DOMAIN tables
         THEN /\ UNCHANGED rows
              /\ last' = Call("getitem", h, t, row.identifier, EmptyDict,
                              None, TRUE, <<>>, <<"loaded", key>>)
         ELSE \E v \in select_value(tables[t], row.identifier, key) :
                /\ rows' = [rows EXCEPT ![h].data = DictSet(@, key, v)]
                /\ last' = Call("getitem", h, t, row.identifier, EmptyDict, v,
                                FALSE, <<>>, <<"loaded", key>>)
      /\ UNCHANGED <<tables, triggers, use_json_fallback, txn, generator,
                     handlers, wrapper_fn,
                     fn_unbind, clock, allocated>>

\* Row.__delitem__: del row[key]; the call recorded holds the number of
\* entries deleted
DelItem(h, key) ==
  LET row == rows[h]
      t == db_table(row.keyspace)
  IN  /\ row # NoRow
      /\ IF t \notin DOMAIN tables
         THEN /\ UNCHANGED <<tables, rows>>
              /\ last' = Call("delitem", h, t, row.identifier, EmptyDict, None,
                              TRUE, <<>>, <<key>>)
         ELSE /\ tables' = sql_delete(tables, t,
                             {r \in Range(tables[t]) :
                                r.row_key = row.identifier /\ r.column = key})
              /\ rows' = [rows EXCEPT ![h].data = DictDel(@, key)]
              /\ last' = Call("delitem", h, t, row.identifier, EmptyDict, None,
                              FALSE, <<>>,
                              <<key, Len(SelectSeq(tables[t], LAMBDA r :
                                       /\ r.row_key = row.identifier
                                       /\ r.column = key))>>)
      /\ UNCHANGED <<triggers, use_json_fallback, txn, generator,
                     handlers, wrapper_fn,
                     fn_unbind, clock, allocated>>

\* the entries of row row_key in rws
versions_of_row(rws, row_key) ==
  SelectSeq(rws, LAMBDA e : e.row_key = row_key)

\* Row.delete(); it returns the number of entries deleted
Delete(h) ==
  LET row == rows[h]
      t == db_table(row.keyspace)
  IN  /\ row # NoRow
      /\ IF t \notin DOMAIN tables
         THEN /\ UNCHANGED tables
              /\ last' = Call("delete", h, t, row.identifier, EmptyDict, None,
                              TRUE, <<>>, <<>>)
         ELSE /\ tables' = sql_delete(tables, t,
                             {r \in Range(tables[t]) :
                                r.row_key = row.identifier})
              /\ last' = Call("delete", h, t, row.identifier, EmptyDict, None,
                              FALSE, <<>>,
                              <<Len(versions_of_row(tables[t], row.identifier))>>)
      /\ UNCHANGED <<triggers, use_json_fallback, txn, generator,
                     handlers, wrapper_fn,
                     fn_unbind, rows, clock, allocated>>

\* time passes: the next time.time() is larger
Tick ==
  /\ clock < MaxClock
  /\ clock' = clock + 1
  /\ last' = Call("tick", 0, <<>>, 0, EmptyDict, None, FALSE, <<>>, <<>>)
  /\ UNCHANGED <<tables, triggers, use_json_fallback, txn, generator,
                 handlers, wrapper_fn,
                 fn_unbind, rows, allocated>>

\* ---------------------------------------------------------------- scans
\* ORDER BY row_key, timestamp DESC of a set of result rows (rows that compare
\* equal come in an order the engine picks)
RECURSIVE order_by(_)
order_by(S) ==
  IF S = {} THEN <<>>
  ELSE LET m == CHOOSE x \in S : \A y \in S :
                  \/ x.row_key < y.row_key
                  \/ x.row_key = y.row_key /\ x.timestamp >= y.timestamp
       IN  <<m>> \o order_by(S \ {m})

\* the results of SELECT row_key, column, value ... GROUP BY row_key, column
\* over the entries es: one row per group, taken from one entry of the group.
\* value is a bare column of the aggregate query, so the engine picks the entry
\* of the group it is read from.
group_by(es) ==
  LET groups == {<<e.row_key, e.column>> : e \in es}
  IN  {reps \in SUBSET es :
         /\ \A g \in groups :
              \E e \in reps : <<e.row_key, e.column>> = g
         /\ \A e1, e2 \in reps :
              <<e1.row_key, e1.column>> = <<e2.row_key, e2.column>> => e1 = e2}

\* row_iterator(keyspace, query): a Row per run of equal row keys
RECURSIVE row_iterator_loop(_, _, _, _)
row_iterator_loop(ks, query, curr, accum) ==
  IF query = <<>>
  THEN IF accum # EmptyDict THEN <<Row(ks, curr, accum)>> ELSE <<>>
  ELSE LET tup == Head(query)
           c == IF curr = 0 THEN tup.row_key ELSE curr
       IN  IF tup.row_key # c
           THEN <<Row(ks, c, accum)>>
                  \o row_iterator_loop(ks, Tail(query), tup.row_key,
                                       DictSet(EmptyDict, tup.column, tup.value))
           ELSE row_iterator_loop(ks, Tail(query), c,
                                  DictSet(accum, tup.column, tup.value))

row_iterator(ks, query) == row_iterator_loop(ks, query, 0, EmptyDict)

\* the entries of the log that the join with the Index and the WHERE clause of
\* Index.query(value, operator.eq) keep
query_entries(log, index_rows, value) ==
  {e \in Range(log) :
     \E x \in Range(index_rows) : x.row_key = e.row_key /\ x.value = value}

\* Index.query(value), the results iterated to the end
Query(ks, i, value) ==
  LET t == db_table(ks)
      it == index_db_table(ks, indexes(ks)[i])
  IN  /\ i \in DOMAIN indexes(ks)
      /\ IF t \notin DOMAIN tables \/ it \notin DOMAIN tables
         THEN last' = Call("query", i, t, 0, EmptyDict, value, TRUE, <<>>, <<>>)
         ELSE \E reps \in group_by(query_entries(tables[t], tables[it], value)) :
                last' = Call("query", i, t, 0, EmptyDict, value, FALSE, <<>>,
                             row_iterator(ks, order_by(reps)))
      /\ UNCHANGED <<tables, triggers, use_json_fallback, txn, generator,
                     handlers, wrapper_fn,
                     fn_unbind, rows, clock, allocated>>

\* ORDER BY row_key of the rows of an Index
RECURSIVE order_by_row_key(_)
order_by_row_key(S) ==
  IF S = {} THEN <<>>
  ELSE LET m == CHOOSE x \in S : \A y \in S : x.row_key <= y.row_key
       IN  <<m>> \o order_by_row_key(S \ {m})

\* Index.all_items()
all_items(index_rows) == order_by_row_key(Range(index_rows))

\* the keys of Index._op_map
op_map_keys == {"<", "<=", "==", ">=", ">", "!=", "LIKE", "IN"}

\* the operator tokens passed to Index.query: two keys of _op_map and two
\* strings that are not keys of it
Operations == {"==", "!=", "=", "BETWEEN"}

\* Index._op_map[operation](index.value, value) in the WHERE clause, for the
\* operations passed
op_map(operation, a, b) ==
  CASE operation = "==" -> a = b
    [] operation = "!=" -> a # b

\* the entries of the log that the join with the Index and the WHERE clause of
\* Index.query(value, operation) keep
query_entries_where(log, index_rows, value, operation) ==
  {e \in Range(log) :
     \E x \in Range(index_rows) :
       x.row_key = e.row_key /\ op_map(operation, x.value, value)}

\* gen = indexes(ks)[i].query(value, operation): Index.query is a generator
\* function, so the call runs none of its body and returns a generator
QueryCall(ks, i, value, operation) ==
  /\ i \in DOMAIN indexes(ks)
  /\ generator' = [keyspace |-> ks, index |-> i, value |-> value,
                   operation |-> operation, state |-> "created"]
  /\ last' = Call("query_call", i, db_table(ks), 0, EmptyDict, value, FALSE,
                  <<>>, <<operation>>)
  /\ UNCHANGED <<tables, triggers, use_json_fallback, txn, handlers,
                 wrapper_fn,
                 fn_unbind, rows, clock, allocated>>

\* list(gen) of a generator that has not started: the body of Index.query
\* runs from its first line; self._op_map[operation] raises KeyError for a
\* string that is not a key, and the generator is finished either way
QueryIterate ==
  LET g == generator
      t == db_table(g.keyspace)
      it == index_db_table(g.keyspace, indexes(g.keyspace)[g.index])
  IN  /\ g.state = "created"
      /\ generator' = [g EXCEPT !.state = "finished"]
      /\ IF g.operation \notin op_map_keys
            \/ t \notin DOMAIN tables \/ it \notin DOMAIN tables
         THEN last' = Call("query_iterate", g.index, t, 0, EmptyDict, g.value,
                           TRUE, <<>>, <<g.operation>>)
         ELSE \E reps \in group_by(query_entries_where(
                             tables[t], tables[it], g.value, g.operation)) :
                last' = Call("query_iterate", g.index, t, 0, EmptyDict,
                             g.value, FALSE, <<>>,
                             <<g.operation>>
                               \o row_iterator(g.keyspace, order_by(reps)))
      /\ UNCHANGED <<tables, triggers, use_json_fallback, txn, handlers,
                     wrapper_fn,
                     fn_unbind, rows, clock, allocated>>

\* indexes(ks)[i].query(a) | indexes(ks)[j].query(b): Index.query is a
\* generator function, so each call returns a generator whose body has not
\* started, and a generator has no "|": the expression raises TypeError
QueryUnion(ks, i, a, j, b) ==
  /\ i \in DOMAIN indexes(ks)
  /\ j \in DOMAIN indexes(ks)
  /\ last' = Call("query_union", <<i, j>>, db_table(ks), 0, EmptyDict,
                  <<a, b>>, TRUE, <<>>, <<>>)
  /\ UNCHANGED <<tables, triggers, use_json_fallback, txn, generator,
                 handlers, wrapper_fn,
                 fn_unbind, rows, clock, allocated>>

\* KeySpace.all(), the results iterated to the end
All(ks) ==
  LET t == db_table(ks)
  IN  /\ IF t \notin DOMAIN tables
         THEN last' = Call("all", 0, t, 0, EmptyDict, None, TRUE, <<>>, <<>>)
         ELSE \E reps \in group_by(Range(tables[t])) :
                last' = Call("all", 0, t, 0, EmptyDict, None, FALSE, <<>>,
                             row_iterator(ks, order_by(reps)))
      /\ UNCHANGED <<tables, triggers, use_json_fallback, txn, generator,
                     handlers, wrapper_fn,
                     fn_unbind, rows, clock, allocated>>

\* --------------------------------------------------------------- handlers
\* keyspace.handler(fn): a new wrapper is appended to the list of the
\* keyspace's table, and fn.unbind is set to the closure that removes it
Handler(ks, fn) ==
  LET w == Len(wrapper_fn) + 1
  IN  /\ Len(wrapper_fn) < MaxBind
      /\ wrapper_fn' = Append(wrapper_fn, fn)
      /\ handlers' = [handlers EXCEPT ![db_table(ks)] = Append(@, w)]
      /\ fn_unbind' = [fn_unbind EXCEPT ![fn] =
                         [table |-> db_table(ks), wrapper |-> w]]
      /\ last' = Call("handler", w, db_table(ks), 0, EmptyDict, None, FALSE,
                      <<>>, <<>>)
      /\ UNCHANGED <<tables, triggers, use_json_fallback, txn, generator,
                     rows, clock,
                     allocated>>

\* fn.unbind(), for an fn that keyspace.handler was called with:
\* self.database._handlers[self.db_table].remove(wrapper), a ValueError when
\* the wrapper is not in the list
Unbind(fn) ==
  LET u == fn_unbind[fn]
  IN  /\ u.wrapper # 0
      /\ IF u.wrapper \in Range(handlers[u.table])
         THEN /\ handlers' = [handlers EXCEPT ![u.table] =
                                list_remove(@, u.wrapper)]
              /\ last' = Call("unbind", u.wrapper, u.table, 0, EmptyDict, None,
                              FALSE, <<>>, <<>>)
         ELSE /\ UNCHANGED handlers
              /\ last' = Call("unbind", u.wrapper, u.table, 0, EmptyDict, None,
                              TRUE, <<>>, <<>>)
      /\ UNCHANGED <<tables, triggers, use_json_fallback, txn, generator,
                     wrapper_fn, fn_unbind,
                     rows, clock, allocated>>

\* ------------------------------------------- callers on their own connections
\* The program's callers share the database file, each through a connection of
\* its own; `with self.keyspace.atomic()` of multi_set is a deferred
\* transaction: its SELECT reads a snapshot, and SQLite refuses its first
\* INSERT (database is locked) when another connection has committed since.

\* a mutant of busy: the engine lets a stale transaction write
never_busy(snapshot, tbls) == FALSE

\* the transaction that read snapshot may not write the database tbls
busy(snapshot, tbls) == snapshot # tbls

\* keyspace.create_row(**data) up to its SELECT: Row.__init__ enters
\* multi_set, which opens the atomic block and reads the next row key
MultiSetBegin(h, ks, data) ==
  LET t == db_table(ks)
  IN  /\ txn[h] = NoTxn
      /\ Len(allocated) < MaxCreate
      /\ IF t \notin DOMAIN tables
         THEN /\ UNCHANGED txn
              /\ last' = Call("create_row", h, t, 0, data, None, TRUE, <<>>,
                              <<>>)
         ELSE \E identifier \in {next_row_key(tables[t])} :
                /\ txn' = [txn EXCEPT ![h] =
                             [keyspace |-> ks, identifier |-> identifier,
                              data |-> data, snapshot |-> tables]]
                /\ last' = Call("multi_set", h, t, identifier, data, None,
                                FALSE, <<>>, <<>>)
      /\ UNCHANGED <<tables, triggers, use_json_fallback, generator, handlers,
                     wrapper_fn, fn_unbind, rows, clock, allocated>>

\* the rest of keyspace.create_row(**data): insert_many with the row key that
\* was read, the end of the atomic block, and the Row that is returned
MultiSetCommit(h) ==
  LET t == db_table(txn[h].keyspace)
      data == txn[h].data
      identifier == txn[h].identifier
      atomic(r) == IF r.raised THEN Outcome(TRUE, tables, r.signals) ELSE r
  IN  /\ txn[h] # NoTxn
      /\ txn' = [txn EXCEPT ![h] = NoTxn]
      /\ IF busy(txn[h].snapshot, tables)
         THEN /\ UNCHANGED <<tables, handlers, rows, allocated>>
              /\ last' = Call("create_row", h, t, 0, data, None, TRUE, <<>>,
                              <<>>)
         ELSE \E cols \in Orders(DOMAIN data), signal_first \in BOOLEAN :
                \E r \in {atomic(insert_many(tables, t, identifier, data, cols,
                                             signal_first, handlers))} :
                  /\ Len(tables[t]) + Len(cols) <= MaxLog
                  /\ identifier <= MaxKey
                  /\ tables' = r.tables
                  /\ handlers' = unbound(handlers, r.signals)
                  /\ IF r.raised
                     THEN UNCHANGED <<rows, allocated>>
                     ELSE /\ rows' = [rows EXCEPT ![h] =
                                        Row(txn[h].keyspace, identifier, data)]
                          /\ allocated' =
                               Append(allocated, <<t, identifier>>)
                  /\ last' = Call("create_row", h, t,
                                  IF r.raised THEN 0 ELSE identifier, data,
                                  None, r.raised, r.signals, cols)
      /\ UNCHANGED <<triggers, use_json_fallback, generator, wrapper_fn,
                     fn_unbind, clock>>

\* ------------------------------------------------------ the extractor
\* the segments paths are built from: .k1, .k2, [0], [1] and [10], each with
\* its text
Field(name) == [kind |-> "field", name |-> name, text |-> <<".">> \o name]
At(i, digits) ==
  [kind |-> "index", i |-> i, text |-> <<"[">> \o digits \o <<"]">>]
Segments ==
  {Field(K1), Field(K2), At(0, <<"0">>), At(1, <<"1">>), At(10, <<"1", "0">>)}

\* the paths of at most MaxSegs segments, as sequences of segments
MaxSegs == 2
SegLists == UNION {[1..n -> Segments] : n \in 0..MaxSegs}

\* the text of a path: "$" and the text of its segments
RECURSIVE path_text(_)
path_text(segs) ==
  IF segs = <<>> THEN <<"$">>
  ELSE path_text(SubSeq(segs, 1, Len(segs) - 1)) \o segs[Len(segs)].text

\* the documents extracted from: null, "xy", {"k1": "x"}, {"k1": null},
\* {"k1": ["x", "y"], "k2": "x"}, {"k1": {"k2": "x"}}, ["x", {"k1": "y"}],
\* [["x"]] and []
Docs ==
  {None, Str(<<"x", "y">>), DocK1X, Obj(K1 :> None),
   Obj((K1 :> Arr(<<X, Y>>)) @@ (K2 :> X)), Obj(K1 :> DocK2X),
   Arr(<<X, DocK1Y>>), Arr(<<Arr(<<X>>)>>), Arr(<<>>)}

\* _json_extract_fallback(json.dumps(doc), path), as test_json_extract_fallback
\* calls it
JsonExtractFallback(doc, segs) ==
  /\ \E r \in {json_extract_fallback(doc, path_text(segs))} :
       last' = Call("json_extract_fallback", 0, <<>>, 0, EmptyDict, r.v,
                    r.raised, <<>>, <<doc, segs>>)
  /\ UNCHANGED <<tables, triggers, use_json_fallback, txn, generator, handlers,
                 wrapper_fn, fn_unbind, rows, clock, allocated>>

\* ------------------------------------------------------- specifications
\* every call of the program, on every keyspace
Next ==
  \/ \E ks \in KeySpaces : Create(ks)
  \/ \E ks \in KeySpaces : Drop(ks)
  \/ \E h \in Handles, ks \in KeySpaces, k \in 1..MaxKey : GetRowHandle(h, ks, k)
  \/ \E h \in Handles, ks \in KeySpaces : CreateRowPending(h, ks)
  \/ \E h \in Handles, ks \in KeySpaces, data \in Datas : CreateRow(h, ks, data)
  \/ \E h \in Handles, key \in Columns, value \in Values : SetItem(h, key, value)
  \/ \E h \in Handles, key \in Columns : GetItem(h, key)
  \/ \E h \in Handles, key \in Columns : DelItem(h, key)
  \/ \E h \in Handles : Delete(h)
  \/ \E ks \in KeySpaces, i \in 1..2, value \in {X, Y} : Query(ks, i, value)
  \/ \E ks \in KeySpaces, fn \in Fns \ Unbinds : Handler(ks, fn)
  \/ \E fn \in Fns \ Unbinds : Unbind(fn)
  \/ Tick

Spec == Init /\ [][Next]_vars

\* The specifications below are parts of Spec: the calls one group of
\* properties is about, on the keyspace KsA, with the values they need.

\* two values that differ at PathK1
TwoValues == {DocK1X, DocK1Y}
\* the dicts of create_row whose values are all DocK1X
DatasOfOne == {d \in Datas : Range(d) \subseteq {DocK1X}}

\* a build of SQLite that has json_extract
InitNative == Init /\ ~use_json_fallback

\* writes and fresh reads of one program, while time passes
NextLatest ==
  \/ Create(KsA)
  \/ \E k \in 1..MaxKey : GetRowHandle(1, KsA, k)
  \/ \E key \in Columns, value \in TwoValues : SetItem(1, key, value)
  \/ \E key \in Columns : GetItem(1, key)
  \/ Tick

SpecLatest == Init /\ [][NextLatest]_vars

\* creations of rows without an identifier, and deletions of rows
NextAlloc ==
  \/ Create(KsA)
  \/ CreateRowPending(1, KsA)
  \/ \E data \in DatasOfOne : CreateRow(1, KsA, data)
  \/ \E key \in Columns : SetItem(1, key, DocK1X)
  \/ Delete(1)

SpecAlloc == Init /\ [][NextAlloc]_vars

\* writes, reads and deletions through one Row handle
NextRow ==
  \/ Create(KsA)
  \/ \E k \in 1..MaxKey : GetRowHandle(1, KsA, k)
  \/ \E key \in Columns, value \in TwoValues : SetItem(1, key, value)
  \/ \E key \in Columns : GetItem(1, key)
  \/ \E key \in Columns : DelItem(1, key)
  \/ Delete(1)

SpecRow == Init /\ [][NextRow]_vars

\* writes, reads and column deletions through two Row handles; the column
\* ColData is rewritten and deleted, the column ColMisc written
NextCache ==
  \/ Create(KsA)
  \/ \E h \in Handles, k \in 1..MaxKey : GetRowHandle(h, KsA, k)
  \/ \E h \in Handles, value \in TwoValues : SetItem(h, ColData, value)
  \/ \E h \in Handles : SetItem(h, ColMisc, DocK1X)
  \/ \E h \in Handles, key \in Columns : GetItem(h, key)
  \/ \E h \in Handles : DelItem(h, ColData)

SpecCache == InitNative /\ [][NextCache]_vars

\* writes, column deletions and row deletions on a created KeySpace with its
\* Indexes, and queries
NextIndex ==
  \/ Create(KsA)
  \/ \E k \in 1..MaxKey : GetRowHandle(1, KsA, k)
  \/ \E key \in Columns, value \in {DocK1X, DocK1Y, DocK2X} :
       SetItem(1, key, value)
  \/ \E key \in Columns : DelItem(1, key)
  \/ Delete(1)
  \/ \E i \in DOMAIN indexes(KsA), value \in {X, Y} : Query(KsA, i, value)

SpecIndex == Init /\ [][NextIndex]_vars

\* the life of a KeySpace with its Indexes: created, written, dropped and
\* created again, its rows deleted
NextIndexDrop ==
  \/ Create(KsA)
  \/ Drop(KsA)
  \/ \E k \in 1..MaxKey : GetRowHandle(1, KsA, k)
  \/ \E key \in Columns : SetItem(1, key, DocK1X)
  \/ Delete(1)
  \/ \E i \in DOMAIN indexes(KsA) : Query(KsA, i, X)

SpecIndexDrop == Init /\ [][NextIndexDrop]_vars

\* handlers bound and unbound, rows created and written
NextEvents ==
  \/ Create(KsA)
  \/ \E fn \in Fns \ Unbinds : Handler(KsA, fn)
  \/ \E fn \in Fns \ Unbinds : Unbind(fn)
  \/ \E data \in DatasOfOne : CreateRow(1, KsA, data)
  \/ \E key \in Columns : SetItem(1, key, DocK1X)

SpecEvents == Init /\ [][NextEvents]_vars

\* writes and row deletions while time passes, scans of the log and queries
\* of the first Index, alone and composed
NextQuery ==
  \/ Create(KsA)
  \/ \E k \in 1..MaxKey : GetRowHandle(1, KsA, k)
  \/ \E value \in TwoValues : SetItem(1, ColData, value)
  \/ Delete(1)
  \/ Tick
  \/ All(KsA)
  \/ \E value \in {X, Y} : Query(KsA, 1, value)
  \/ \E a, b \in {X, Y} : a # b /\ QueryUnion(KsA, 1, a, 1, b)
  \/ \E operation \in Operations : QueryCall(KsA, 1, X, operation)
  \/ QueryIterate

SpecQuery == InitNative /\ [][NextQuery]_vars

\* writes through one handle while time passes, and rows fetched with a
\* preload through another
NextPreload ==
  \/ Create(KsA)
  \/ \E k \in 1..MaxKey : GetRowHandle(1, KsA, k)
  \/ \E value \in TwoValues : SetItem(1, ColData, value)
  \/ SetItem(1, ColMisc, DocK1X)
  \/ Tick
  \/ \E k \in 1..MaxKey, preload \in Preloads : GetRow(2, KsA, k, preload)

SpecPreload == InitNative /\ [][NextPreload]_vars

\* handlers bound, rows written and deleted
NextSignals ==
  \/ Create(KsA)
  \/ \E fn \in {"rec", "stop", "boom"} : Handler(KsA, fn)
  \/ \E k \in 1..MaxKey : GetRowHandle(1, KsA, k)
  \/ SetItem(1, ColData, DocK1X)
  \/ DelItem(1, ColData)
  \/ Delete(1)

SpecSignals == Init /\ [][NextSignals]_vars

\* extractions from the documents by the paths
NextExtract ==
  \E doc \in Docs, segs \in SegLists : JsonExtractFallback(doc, segs)

SpecExtract == Init /\ [][NextExtract]_vars

\* two callers that create rows in one KeySpace, each on its own connection:
\* create_row in its two steps and first assignments on pending Rows
NextConcurrent ==
  \/ Create(KsA)
  \/ \E h \in Handles : txn[h] = NoTxn /\ CreateRowPending(h, KsA)
  \/ \E h \in Handles :
       txn[h] = NoTxn /\ rows[h] # NoRow /\ rows[h].identifier = 0
         /\ SetItem(h, ColData, DocK1X)
  \/ \E h \in Handles, data \in DatasOfOne : MultiSetBegin(h, KsA, data)
  \/ \E h \in Handles : MultiSetCommit(h)

SpecConcurrent == InitNative /\ [][NextConcurrent]_vars

\* handlers bound to KsA, and writes through Rows of three KeySpaces of one
\* Database
NextHandlers ==
  \/ \E ks \in {KsA, KsB, KsKa} : Create(ks)
  \/ \E fn \in {"rec", "stop"} : Handler(KsA, fn)
  \/ \E ks \in {KsA, KsB, KsKa} : GetRowHandle(1, ks, 1)
  \/ \E key \in Columns : SetItem(1, key, DocK1X)

SpecHandlers == InitNative /\ [][NextHandlers]_vars

\* handlers of KsA, one of which unbinds itself when it is called, and writes
\* to a Row of KsA
NextUnbinding ==
  \/ Create(KsA)
  \/ \E fn \in {"once", "rec", "stop"} : Handler(KsA, fn)
  \/ GetRowHandle(1, KsA, 1)
  \/ SetItem(1, ColData, DocK1X)
  \/ \E data \in DatasOfOne : CreateRow(2, KsA, data)

SpecUnbinding == InitNative /\ [][NextUnbinding]_vars

\* first writes through pending Rows that fail (a handler raises) and writes
\* after the handler is unbound
NextPending ==
  \/ Create(KsA)
  \/ Handler(KsA, "boom")
  \/ Unbind("boom")
  \/ \E h \in Handles : CreateRowPending(h, KsA)
  \/ \E h \in Handles : SetItem(h, ColData, DocK1X)
  \/ \E h \in Handles : MultiSet(h, ColMisc :> DocK1X)

SpecPending == InitNative /\ [][NextPending]_vars

\* ------------------------------------------------------------ properties
\* the versions of (row_key, column) in rws, oldest first
versions(rws, row_key, column) ==
  SelectSeq(rws, LAMBDA e : e.row_key = row_key /\ e.column = column)

\* the last call was a read that returned a value loaded from the log
LoadedRead ==
  /\ last.op = "getitem"
  /\ ~last.raised
  /\ last.out[1] = "loaded"
  /\ last.table \in DOMAIN tables

\* C1 (as stated): a read of a column through a Row handle that has nothing
\* cached for it returns the value of the version of (rowKey, column) that was
\* appended last, whenever the pair has a version.
C1_LatestWins ==
  LoadedRead =>
    LET vs == versions(tables[last.table], last.row_key, last.out[2])
    IN  vs # <<>> => last.value = vs[Len(vs)].value

\* C2 (as stated): the row keys given to rows created without an identifier
\* are 1, 2, ..., N in the order of the creations, whatever deletions of
\* rows come in between; no row key is given twice.
C2_RowKeyAllocation ==
  LET given == SelectSeq(allocated, LAMBDA a : a[1] = db_table(KsA))
  IN  /\ \A i \in DOMAIN given : given[i][2] = i
      /\ \A i, j \in DOMAIN given : i # j => given[i] # given[j]

\* the last call was an assignment row[c] = v that returned
Assigned == last.op = "setitem" /\ ~last.raised

C7_Upsert ==
  LET t == db_table(KsA)
  IN  t \in DOMAIN tables =>
        /\ \A i, j \in DOMAIN tables[t] :
             (/\ tables[t][i].row_key = tables[t][j].row_key
              /\ tables[t][i].column = tables[t][j].column) => i = j
        /\ Assigned =>
             \A e \in Range(versions(tables[t], last.row_key, last.out[1])) :
               e.value = last.value

\* the calls made on or for a Row handle
RowOps ==
  {"keyspace_getitem", "create_row", "setitem", "getitem", "delitem", "delete"}

\* C8: while a Row handle has a column in its cache, no call made through
\* another handle changes what is cached, and a read of the column through
\* the handle returns the cached value without loading anything; a read
\* through a handle that has nothing cached for the column returns a value
\* the log holds now (null when it holds none).
C8_CacheStaleness ==
  /\ [](LoadedRead =>
          last.value \in select_value(tables[last.table], last.row_key,
                                      last.out[2]))
  /\ [][\A h \in Handles, c \in Columns :
          c \in DOMAIN rows[h].data =>
            /\ ~(last'.op \in RowOps /\ last'.h = h) =>
                 /\ c \in DOMAIN rows'[h].data
                 /\ rows'[h].data[c] = rows[h].data[c]
            /\ (last'.op = "getitem" /\ last'.h = h /\ last'.out[2] = c) =>
                 /\ ~last'.raised
                 /\ last'.value = rows[h].data[c]
                 /\ rows'[h] = rows[h]]_vars

\* a read returned a cached value although another handle of the same row
\* has since appended (and cached) another value
C8_Witness ==
  /\ last.op = "getitem"
  /\ last.out[1] = "cached"
  /\ last.table \in DOMAIN tables
  /\ LET vs == versions(tables[last.table], last.row_key, last.out[2])
     IN  /\ vs # <<>>
         /\ vs[Len(vs)].value # last.value
         /\ \E h \in Handles \ {last.h} :
              /\ rows[h].identifier = last.row_key
              /\ last.out[2] \in DOMAIN rows[h].data
              /\ rows[h].data[last.out[2]] = vs[Len(vs)].value

\* the entries of row row_key in log that an Index on (column, path) matches:
\* entries of the column whose value is not absent at the path, oldest first
matching(log, ix, row_key) ==
  SelectSeq(log, LAMBDA e :
    /\ e.row_key = row_key
    /\ e.column = ix.column
    /\ ~sql_json_extract(e.value, ix.path).raised
    /\ sql_json_extract(e.value, ix.path).v # None)

\* what an Index on (column, path) is to hold for row row_key: the extraction
\* from the latest matching entry
projection(log, ix, row_key) ==
  LET m == matching(log, ix, row_key)
  IN  sql_json_extract(m[Len(m)].value, ix.path).v

\* the row keys of S, ascending
RECURSIVE Ascending(_)
Ascending(S) ==
  IF S = {} THEN <<>>
  ELSE LET m == CHOOSE x \in S : \A y \in S : x <= y
       IN  <<m>> \o Ascending(S \ {m})

\* C3 (as stated): on a created KeySpace each bound Index holds at most one
\* entry per rowKey, and it holds an entry (rowKey, x) exactly when the row
\* has a live entry of the Index's column whose value is not absent at the
\* Index's path, x being the extraction from the latest such entry.
C3_IndexInvariant ==
  LET t == db_table(KsA)
  IN  t \in DOMAIN tables =>
        \A i \in DOMAIN indexes(KsA) :
          LET ix == indexes(KsA)[i]
              held == tables[index_db_table(KsA, ix)]
          IN  \A k \in 1..MaxKey :
                LET of_k == SelectSeq(held, LAMBDA r : r.row_key = k)
                IN  /\ Len(of_k) <= 1
                    /\ (of_k # <<>>) <=> (matching(tables[t], ix, k) # <<>>)
                    /\ of_k # <<>> =>
                         of_k[1].value = projection(tables[t], ix, k)

\* C4 (as stated): index.query(x) with the equality operator returns the
\* rows whose latest entry matched by the Index extracts to x, each once,
\* by ascending rowKey, and no other row.
C4_QueryEq ==
  (last.op = "query" /\ ~last.raised) =>
    LET ix == indexes(KsA)[last.h]
        log == tables[last.table]
    IN  [n \in DOMAIN last.out |-> last.out[n].identifier]
          = Ascending({k \in 1..MaxKey :
                         /\ matching(log, ix, k) # <<>>
                         /\ projection(log, ix, k) = last.value})

\* C5 (as stated): once row.delete() has deleted the entries of a row, no
\* bound Index of the KeySpace holds an entry for the rowKey of the row in
\* all_items(), and a query returns no row that has no entry in the log.
C5_DeletionCascade ==
  /\ (last.op = "delete" /\ ~last.raised /\ last.out[1] > 0) =>
       \A i \in DOMAIN indexes(KsA) :
         LET it == index_db_table(KsA, indexes(KsA)[i])
         IN  it \in DOMAIN tables =>
               \A n \in DOMAIN all_items(tables[it]) :
                 all_items(tables[it])[n].row_key # last.row_key
  /\ (last.op = "query" /\ ~last.raised) =>
       \A n \in DOMAIN last.out :
         \E e \in Range(tables[last.table]) :
           e.row_key = last.out[n].identifier

\* the last call was a write (create_row(**data) or row[c] = v) that returned
Wrote ==
  /\ last.op \in {"create_row", "setitem"}
  /\ ~last.raised
  /\ last.data # EmptyDict

\* the signals of the last call that went to registration w
signals_to(w) ==
  SelectSeq(last.signals, LAMBDA c : c.wrapper = w)

\* the signals of the last call to registration w for the column col, with
\* the row key and the value written
signals_for(w, col) ==
  SelectSeq(last.signals, LAMBDA c :
    /\ c.wrapper = w
    /\ c.row_key = last.row_key
    /\ c.column = col
    /\ c.value = last.data[col])

\* the registrations of the list hs the dispatch of a signal of the column
\* reaches when no handler raises: those up to and including the first that
\* returns False
RECURSIVE reached(_, _)
reached(hs, column) ==
  IF hs = <<>> THEN <<>>
  ELSE IF handler_result(wrapper_fn[Head(hs)], column) = "false"
  THEN <<Head(hs)>>
  ELSE <<Head(hs)>> \o reached(Tail(hs), column)

Unbound(fn) ==
  /\ fn_unbind[fn].wrapper # 0
  /\ fn_unbind[fn].wrapper \notin Range(handlers[fn_unbind[fn].table])

signals_of(col) ==
  SelectSeq(last.signals, LAMBDA c : c.column = col)

WriteFailed ==
  /\ last.op \in {"create_row", "setitem"}
  /\ last.raised

\* C12: a create_row or a single-column assignment that raises leaves the
\* log and the tables of every Index as they were before the call, and no
\* handler, the one whose exception failed the call apart, was called with a
\* signal of the call.
C12_FailureAtomicity ==
  [][WriteFailed' =>
       /\ tables' = tables
       /\ \A n \in DOMAIN last'.signals :
            handler_result(last'.signals[n].fn, last'.signals[n].column)
              = "raise"]_vars

\* the part of C12 about storage: a write that raises leaves the log and the
\* tables of every Index as they were before the call
C12_Rollback ==
  [][WriteFailed' => tables' = tables]_vars

\* the row keys of the Rows of the sequence out, in its order
identifiers(out) == [n \in DOMAIN out |-> out[n].identifier]

\* the row keys Index.query(value) on the i-th Index of KsA returns
query_keys(i, value) ==
  {e.row_key :
     e \in query_entries(tables[db_table(KsA)],
                         tables[index_db_table(KsA, indexes(KsA)[i])], value)}

\* C13: the union of two queries with distinct values, on one Index or on two
\* Indexes of the KeySpace, does not raise and yields the rows that either
\* query returns, each row key once, by ascending row key.
C13_QueryUnion ==
  last.op = "query_union" =>
    /\ ~last.raised
    /\ identifiers(last.out) =
         Ascending(query_keys(last.h[1], last.value[1])
                     \cup query_keys(last.h[2], last.value[2]))

\* C14: keyspace.all() yields the row keys that have an entry in the log,
\* each once, by ascending row key; a Row that all() or index.query() yields
\* has the columns the row has entries of, each with the value of a version
\* of the greatest timestamp.
C14_Scan ==
  LET log == tables[last.table]
      cols(k) == {e.column : e \in {x \in Range(log) : x.row_key = k}}
      newest(k, c) ==
        {e.value : e \in {x \in Range(log) :
           /\ x.row_key = k
           /\ x.column = c
           /\ \A y \in Range(log) :
                (y.row_key = k /\ y.column = c) => y.timestamp <= x.timestamp}}
  IN  (last.op \in {"all", "query"} /\ ~last.raised) =>
        /\ last.op = "all" =>
             identifiers(last.out) = Ascending({e.row_key : e \in Range(log)})
        /\ \A n \in DOMAIN last.out :
             /\ DOMAIN last.out[n].data = cols(last.out[n].identifier)
             /\ \A c \in DOMAIN last.out[n].data :
                  last.out[n].data[c] \in newest(last.out[n].identifier, c)

\* C15: keyspace.create() on a KeySpace that is created already does not
\* raise, and it leaves the log, the tables of the Indexes, the triggers and
\* the handlers as they were.
C15_CreateIdempotent ==
  [][(last'.op = "create" /\ last'.table \in DOMAIN tables) =>
       /\ ~last'.raised
       /\ tables' = tables
       /\ triggers' = triggers
       /\ handlers' = handlers]_vars

\* C16: when keyspace.create() returns right after keyspace.drop() returned,
\* all_items() of every Index of the KeySpace is empty.
C16_DropIndexes ==
  [][(/\ last.op = "drop" /\ ~last.raised
      /\ last'.op = "create" /\ ~last'.raised
      /\ last'.table = last.table) =>
       \A i \in DOMAIN indexes(KsA) :
         all_items(tables'[index_db_table(KsA, indexes(KsA)[i])]) = <<>>]_vars

\* C17: the read of a column through a Row handle, right after row.delete()
\* or del row[c] of that column returned through the same handle, does not
\* take the value from the cache and returns None.
C17_DeleteClearsCache ==
  [][(/\ last'.op = "getitem"
      /\ last'.h = last.h
      /\ ~last.raised
      /\ \/ last.op = "delete"
         \/ last.op = "delitem" /\ last.out[1] = last'.out[2]) =>
       /\ last'.out[1] = "loaded"
       /\ last'.value = None]_vars

\* C18: del row[c] that returns leaves no version of (row key, c) in the log,
\* so that a read of c through a fresh handle returns None, and it leaves the
\* versions of every other column of the row and of every other row, and
\* with them the values a fresh read returns, as they were.
C18_DelItemAllVersions ==
  [][(last'.op = "delitem" /\ ~last'.raised) =>
       /\ versions(tables'[last'.table], last'.row_key, last'.out[1]) = <<>>
       /\ select_value(tables'[last'.table], last'.row_key, last'.out[1])
            = {None}
       /\ \A k \in 1..MaxKey, c \in Columns :
            <<k, c>> # <<last'.row_key, last'.out[1]>> =>
              /\ versions(tables'[last'.table], k, c)
                   = versions(tables[last'.table], k, c)
              /\ select_value(tables'[last'.table], k, c)
                   = select_value(tables[last'.table], k, c)]_vars

\* del row[c] returned after it deleted two versions of the column
C18_Witness ==
  /\ last.op = "delitem"
  /\ ~last.raised
  /\ last.out[2] = 2

\* C19: index.query() with an operator token that is not a key of _op_map
\* raises when it is called.
C19_InvalidOperator ==
  (last.op = "query_call" /\ last.out[1] \notin op_map_keys) => last.raised

\* the part of C19 about the default: the iteration of a query made with a
\* token that is not a key of _op_map raises and yields no row
C19_NoDefaultOperator ==
  (last.op = "query_iterate" /\ last.out[1] \notin op_map_keys) =>
    last.raised /\ Len(last.out) = 1

\* the columns row row_key has entries of in the log rws
columns_of(rws, row_key) ==
  {e.column : e \in {x \in Range(rws) : x.row_key = row_key}}

\* the column names a preload asks for, among those the row has
requested(rws, row_key, preload) ==
  IF preload.all THEN columns_of(rws, row_key)
  ELSE preload.columns \cap columns_of(rws, row_key)

\* the entries of the log t; none when the table does not exist
log_of(t) == IF t \in DOMAIN tables THEN tables[t] ELSE <<>>

\* C20: the cache of the Row that get_row(rowKey, preload) returns holds the
\* names asked for that the row has entries of (all its columns for True)
\* and no other name, each with the value a read of the column returns: that
\* of a version of the greatest timestamp.
C20_Preload ==
  (last.op = "get_row" /\ ~last.raised) =>
    /\ DOMAIN rows[last.h].data
         = requested(log_of(last.table), last.row_key, last.out[1])
    /\ \A c \in DOMAIN rows[last.h].data :
         rows[last.h].data[c]
           \in select_value(log_of(last.table), last.row_key, c)

\* the part of C20 about the names: the cache holds the names asked for that
\* the row has and no other, each with the value of one of its versions
C20_PreloadNames ==
  (last.op = "get_row" /\ ~last.raised) =>
    /\ DOMAIN rows[last.h].data
         = requested(log_of(last.table), last.row_key, last.out[1])
    /\ \A c \in DOMAIN rows[last.h].data :
         \E n \in DOMAIN versions(log_of(last.table), last.row_key, c) :
           versions(log_of(last.table), last.row_key, c)[n].value
             = rows[last.h].data[c]

\* the last call was a read, on a created KeySpace, of a column the Row's
\* row key has no entry of
ReadOfMissing ==
  /\ last.op = "getitem"
  /\ last.table \in DOMAIN tables
  /\ versions(tables[last.table], last.row_key, last.out[2]) = <<>>

\* C21 (as stated): a read of a column that has no entry for the Row's row
\* key returns None and does not raise.
C21_NotFoundAll ==
  ReadOfMissing => (~last.raised /\ last.value = None)

\* C21 (amended): a read of a column that has no entry for the Row's row key,
\* through a Row that has nothing cached for the column, returns None and
\* does not raise; a Row that has the column cached returns what it cached.
C21_NotFound ==
  /\ []((ReadOfMissing /\ last.out[1] = "loaded") =>
          (~last.raised /\ last.value = None))
  /\ [][(last'.op = "getitem" /\ last'.out[1] = "cached") =>
          /\ ~last'.raised
          /\ last'.out[2] \in DOMAIN rows[last'.h].data
          /\ last'.value = rows[last'.h].data[last'.out[2]]]_vars

\* a read loaded None for a column that only another row has an entry of
C21_Witness ==
  /\ ReadOfMissing
  /\ last.out[1] = "loaded"
  /\ last.value = None
  /\ \E e \in Range(tables[last.table]) :
       e.column = last.out[2] /\ e.row_key # last.row_key

\* C22: fn.unbind() called when its registration is bound no more raises and
\* leaves every list of handlers as it was; an unbind that returns takes its
\* own registration out of its list and leaves the other registrations, and
\* their order, as they were.
C22_DoubleUnbind ==
  [][last'.op = "unbind" =>
       IF last'.h \in Range(handlers[last'.table])
       THEN /\ ~last'.raised
            /\ handlers' = [handlers EXCEPT ![last'.table] =
                              SelectSeq(@, LAMBDA w : w # last'.h)]
       ELSE /\ last'.raised
            /\ handlers' = handlers]_vars

\* fn.unbind() was called again after it had returned, and raised, with two
\* other registrations bound on the KeySpace
C22_Witness ==
  /\ last.op = "unbind"
  /\ last.raised
  /\ Len(handlers[last.table]) = 2

\* the value of the document at the path: a field resolves in an object that
\* has the key, an index in an array that has the position; anything else is
\* absent
Absent == [st |-> "absent"]
Present(v) == [st |-> "present", v |-> v]
RECURSIVE value_at(_, _)
value_at(doc, segs) ==
  IF segs = <<>> THEN Present(doc)
  ELSE LET seg == Head(segs)
       IN  IF seg.kind = "field"
           THEN IF doc.kind = "object" /\ seg.name \in DOMAIN doc.items
                THEN value_at(doc.items[seg.name], Tail(segs))
                ELSE Absent
           ELSE IF doc.kind = "array" /\ seg.i < Len(doc.elems)
                THEN value_at(doc.elems[seg.i + 1], Tail(segs))
                ELSE Absent

\* C23: the extraction from a document by a path of .field and [index]
\* segments does not raise; it returns the value at the path when every
\* segment resolves, and None when one does not.
C23_PathExtractor ==
  last.op = "json_extract_fallback" =>
    /\ ~last.raised
    /\ last.value =
         IF value_at(last.out[1], last.out[2]) = Absent THEN None
         ELSE value_at(last.out[1], last.out[2]).v

\* C24: after a write of a column that returns, every Index of the KeySpace
\* on that column at whose path the value written is not absent holds the
\* entry of the row key with the value extracted, whatever the other Indexes
\* declared are.
C24_IndexIndependence ==
  (last.op = "setitem" /\ ~last.raised) =>
    \A i \in DOMAIN indexes(KsA) :
      LET ix == indexes(KsA)[i]
          x == sql_json_extract(last.value, ix.path)
      IN  (ix.column = last.out[1] /\ ~x.raised /\ x.v # None) =>
            \E r \in Range(tables[index_db_table(KsA, ix)]) :
              r.row_key = last.row_key /\ r.value = x.v

\* the calls that write to the log or delete from it
LogOps == {"create_row", "setitem", "delitem", "delete"}

\* the number of calls of registration w that the step made, and the number
\* of entries the step appended to the log t whose signal no handler bound
\* before w stops
invocations(w) ==
  Len(SelectSeq(last'.signals, LAMBDA c : c.wrapper = w))
appended(t, w) ==
  Cardinality({n \in (Len(tables[t]) + 1)..Len(tables'[t]) :
                 w \in Range(reached(handlers[t], tables'[t][n].column))})

\* C25: a deletion calls no handler, and every call that writes to the log
\* calls each handler bound to the KeySpace as many times as it appends
\* entries whose signal no handler bound before stops, so that the two
\* numbers are equal over any run.
C25_DeletesDoNotSignal ==
  [][(/\ last'.op \in LogOps
      /\ last'.table \in DOMAIN tables
      /\ last'.table \in DOMAIN tables') =>
       /\ last'.op \in {"delitem", "delete"} => last'.signals = <<>>
       /\ \A w \in Range(handlers[last'.table]) :
            invocations(w) = appended(last'.table, w)]_vars

\* the part of C25 about the calls that return: the same, for the deletions
\* and for the writes that do not raise
C25_ReturnedCalls ==
  [][(/\ last'.op \in LogOps
      /\ ~last'.raised
      /\ last'.table \in DOMAIN tables
      /\ last'.table \in DOMAIN tables') =>
       /\ last'.op \in {"delitem", "delete"} => last'.signals = <<>>
       /\ \A w \in Range(handlers[last'.table]) :
            invocations(w) = appended(last'.table, w)]_vars

\* C26: every handler called by a write is called before the write returns,
\* and when it is called the log holds the entry of its signal and every
\* Index of the KeySpace on the signal's column at whose path the value is
\* not absent holds the row key with the value extracted.
C26_IndexBeforeSignal ==
  last.op \in {"create_row", "setitem"} =>
    \A n \in DOMAIN last.signals :
      LET c == last.signals[n]
      IN  /\ \E e \in Range(c.seen[last.table]) :
               e.row_key = c.row_key /\ e.column = c.column
                 /\ e.value = c.value
          /\ \A i \in DOMAIN indexes(KsA) :
               LET ix == indexes(KsA)[i]
                   x == sql_json_extract(c.value, ix.path)
               IN  (ix.column = c.column /\ ~x.raised /\ x.v # None) =>
                     \E r \in Range(c.seen[index_db_table(KsA, ix)]) :
                       r.row_key = c.row_key /\ r.value = x.v

\* the part of C26 about the log: when a handler is called, the log holds
\* the entry of its signal
C26_LogBeforeSignal ==
  last.op \in {"create_row", "setitem"} =>
    \A n \in DOMAIN last.signals :
      \E e \in Range(last.signals[n].seen[last.table]) :
        /\ e.row_key = last.signals[n].row_key
        /\ e.column = last.signals[n].column
        /\ e.value = last.signals[n].value

\* the columns the log of table t holds for row_key
columns_in_log(t, row_key) ==
  {tables[t][n].column : n \in {m \in DOMAIN tables[t] :
                                  tables[t][m].row_key = row_key}}

\* C27: however two callers that each create new rows in one KeySpace
\* interleave (create_row with data, or the first assignment on a pending
\* Row), no two rows that were created end up with the same row key, the
\* Rows two callers hold are different rows, and a row key holds the columns
\* of one creation only
C27_UniqueRowKeys ==
  /\ \A i, j \in DOMAIN allocated :
       allocated[i] = allocated[j] => i = j
  /\ \A h1, h2 \in Handles :
       (h1 # h2 /\ rows[h1] # NoRow /\ rows[h1].identifier # 0)
         => rows[h1].identifier # rows[h2].identifier
  /\ \A h \in Handles :
       (rows[h] # NoRow /\ rows[h].identifier # 0)
         => columns_in_log(db_table(rows[h].keyspace), rows[h].identifier)
              = DOMAIN rows[h].data

\* C27 witness: a caller that read the next row key while another caller was
\* creating a row is refused, and the rows created so far have different keys
C27_Witness ==
  /\ last.op = "create_row" /\ last.raised
  /\ last.table \in DOMAIN tables
  /\ Len(allocated) >= 1
  /\ \E h \in Handles : h # last.h /\ rows[h] # NoRow /\ rows[h].identifier # 0
  /\ C27_UniqueRowKeys

\* C28: a handler registered with the KeySpace KsA is invoked only for writes
\* to KsA: a write to a KeySpace of the same Database that has another name
\* invokes no handler of KsA
C28_HandlerIsolation ==
  (last.op = "setitem" /\ rows[last.h].keyspace # KsA)
    => last.signals = <<>>

\* C28, between KeySpaces with tables of their own: a write to a KeySpace
\* whose table is not the table of KsA invokes no handler of KsA
C28_OtherTables ==
  (last.op = "setitem"
     /\ db_table(rows[last.h].keyspace) # db_table(KsA))
    => last.signals = <<>>

\* C29: when a handler calls its own unbind() while it is invoked for the
\* signal of an assignment, every handler registered after it that is still
\* bound afterwards is invoked for that signal too, unless a handler returned
\* the stop sentinel False
C29_UnbindDuringDispatch ==
  [][(last'.op = "setitem" /\ ~last'.raised) =>
       LET hs == handlers[last'.table]
           left == handlers'[last'.table]
           called == {last'.signals[n].wrapper : n \in DOMAIN last'.signals}
           stopped ==
             \E n \in DOMAIN last'.signals :
               handler_result(last'.signals[n].fn, last'.signals[n].column)
                 = "false"
       IN  \A i, j \in DOMAIN hs :
             (/\ i < j
              /\ wrapper_fn[hs[i]] \in Unbinds
              /\ hs[i] \in called
              /\ hs[i] \notin Range(left)
              /\ hs[j] \in Range(left)
              /\ ~stopped)
               => hs[j] \in called]_vars

\* the entries of the Index table it that are for row_key, and those that
\* are not
entries_for(tbls, it, row_key) ==
  SelectSeq(tbls[it], LAMBDA r : r.row_key = row_key)
entries_but(tbls, it, row_key) ==
  SelectSeq(tbls[it], LAMBDA r : r.row_key # row_key)

\* C30: an assignment row[c] = v on the row key k changes nothing but (k, c):
\* the latest versions of every other (row key, column) pair, the entries of
\* every Index for the other row keys, and the entries for k of the Indexes on
\* the other columns are what they were (and all of it when the assignment
\* fails)
C30_WriteFrame ==
  [][last'.op = "setitem" =>
       IF last'.raised THEN tables' = tables
       ELSE LET t == last'.table
                k == last'.row_key
                c == last'.out[1]
            IN  /\ DOMAIN tables' = DOMAIN tables
                /\ \A n \in DOMAIN tables \ {t} :
                     n \notin {index_db_table(KsA, indexes(KsA)[i]) :
                                 i \in DOMAIN indexes(KsA)}
                       => tables'[n] = tables[n]
                /\ \A row_key \in 1..(MaxKey + 1), column \in Columns :
                     (row_key # k \/ column # c) =>
                       latest_versions(tables'[t], row_key, column)
                         = latest_versions(tables[t], row_key, column)
                /\ \A i \in DOMAIN indexes(KsA) :
                     LET ix == indexes(KsA)[i]
                         it == index_db_table(KsA, ix)
                     IN  /\ entries_but(tables', it, k)
                              = entries_but(tables, it, k)
                         /\ ix.column # c =>
                              entries_for(tables', it, k)
                                = entries_for(tables, it, k)]_vars

\* C30 witness: an assignment to a column of a row has returned while the
\* Index on another column holds an entry for that row
C30_Witness ==
  /\ last.op = "setitem" /\ ~last.raised
  /\ \E i \in DOMAIN indexes(KsA) :
       /\ indexes(KsA)[i].column # last.out[1]
       /\ entries_for(tables, index_db_table(KsA, indexes(KsA)[i]),
                      last.row_key) # <<>>

\* the step is a first write, failed, through the Row h that had no identifier
FailedFirstWrite(h, op) ==
  /\ last'.op = op /\ last'.h = h /\ last'.raised
  /\ rows[h] # NoRow /\ rows[h].identifier = 0

\* C31: a first write through a Row without identifier that fails (an
\* assignment or multi_set) leaves the Row without identifier and its cache
\* without the values that were not stored
C31_FailedWriteLeavesPending ==
  [][\A h \in Handles :
       (FailedFirstWrite(h, "setitem") \/ FailedFirstWrite(h, "multi_set"))
         => /\ rows'[h].identifier = 0
            /\ rows'[h].data = rows[h].data]_vars

\* C31, for assignments: a failed first assignment leaves the Row without
\* identifier and its cache as it was
C31_FailedSetItem ==
  [][\A h \in Handles :
       FailedFirstWrite(h, "setitem")
         => /\ rows'[h].identifier = 0
            /\ rows'[h].data = rows[h].data]_vars

\* C31, the consequence: the Rows that two callers created separately are
\* rows with different row keys
C31_FreshRowKey ==
  \A h1, h2 \in Handles :
    (h1 # h2 /\ rows[h1] # NoRow /\ rows[h1].identifier # 0)
      => rows[h1].identifier # rows[h2].identifier

====
